---- MODULE Spec2Model ----
(***************************************************************************)
(* A model of manage_articles.py: the publish/unpublish tool that moves    *)
(* Markdown articles between docs/ and drafts/ and rewrites the nav block  *)
(* of mkdocs.yml.                                                          *)
(*                                                                         *)
(* Text is modelled as a sequence of one-character strings wherever the    *)
(* code looks inside it (the selection line, file names, article lines),   *)
(* and the file system as a function from a fixed universe of relative     *)
(* paths to entries (absent, directory, regular file with content).        *)
(***************************************************************************)
EXTENDS Integers, Sequences, FiniteSets, TLC

VARIABLES
    docs,    \* the tree under DOCS_DIR
    drafts,  \* the tree under DRAFTS_DIR
    mkdocs,  \* MKDOCS_YML: whether it exists, and its text
    pc,      \* the position of the running operation
    loc,     \* the locals of the running operation
    out      \* what the last operation returned or raised

vars == <<docs, drafts, mkdocs, pc, loc, out>>

(***************************************************************************)
(* Bounds of the model.                                                    *)
(***************************************************************************)
MaxSelLen == 4      \* longest selection line typed at the prompt
MaxItems == 3       \* longest list shown by the prompt
MaxTextLen == 5     \* longest mkdocs.yml text (in chunks) drawn for the splice

(***************************************************************************)
(* Generic helpers on sequences.                                           *)
(***************************************************************************)
Range(s) == {s[i] : i \in 1..Len(s)}

SeqsUpTo(S, n) == UNION {[1..k -> S] : k \in 0..n}

RECURSIVE Concat(_)
Concat(ss) == IF ss = <<>> THEN <<>> ELSE Head(ss) \o Concat(Tail(ss))

\* "".join(chars): a Python str from its characters
RECURSIVE Str(_)
Str(cs) == IF cs = <<>> THEN "" ELSE Head(cs) \o Str(Tail(cs))

Min(S) == CHOOSE x \in S : \A y \in S : x <= y

\* sorted(S) for a set of integers
RECURSIVE sorted(_)
sorted(S) == IF S = {} THEN <<>> ELSE <<Min(S)>> \o sorted(S \ {Min(S)})

(***************************************************************************)
(* Characters.                                                             *)
(***************************************************************************)
Digits == {"0", "1", "2", "3", "4", "5", "6", "7", "8", "9"}

DigitVal(c) ==
    CASE c = "0" -> 0 [] c = "1" -> 1 [] c = "2" -> 2 [] c = "3" -> 3
      [] c = "4" -> 4 [] c = "5" -> 5 [] c = "6" -> 6 [] c = "7" -> 7
      [] c = "8" -> 8 [] c = "9" -> 9

\* str.isspace() on the characters the model uses
IsSpace(c) == c \in {" ", "\t", "\r", "\n"}

UpperLetters == <<"A", "B", "C", "D", "E", "F", "G", "H", "I", "J", "K", "L", "M",
                  "N", "O", "P", "Q", "R", "S", "T", "U", "V", "W", "X", "Y", "Z">>
LowerLetters == <<"a", "b", "c", "d", "e", "f", "g", "h", "i", "j", "k", "l", "m",
                  "n", "o", "p", "q", "r", "s", "t", "u", "v", "w", "x", "y", "z">>

\* str.lower() / str.upper() of one character
LowerChar(c) ==
    IF \E i \in 1..26 : UpperLetters[i] = c
    THEN LowerLetters[CHOOSE i \in 1..26 : UpperLetters[i] = c] ELSE c
UpperChar(c) ==
    IF \E i \in 1..26 : LowerLetters[i] = c
    THEN UpperLetters[CHOOSE i \in 1..26 : LowerLetters[i] = c] ELSE c

lower(s) == [i \in 1..Len(s) |-> LowerChar(s[i])]

\* str.strip(): drop leading and trailing whitespace
RECURSIVE lstrip(_)
lstrip(s) == IF s # <<>> /\ IsSpace(Head(s)) THEN lstrip(Tail(s)) ELSE s
RECURSIVE rstrip(_)
rstrip(s) ==
    IF s # <<>> /\ IsSpace(s[Len(s)]) THEN rstrip(SubSeq(s, 1, Len(s) - 1)) ELSE s
strip(s) == rstrip(lstrip(s))

(***************************************************************************)
(* _prompt_indices: the selection parser.                                  *)
(***************************************************************************)
\* the quit keywords of the prompts
QuitWords == {<<"q">>, <<"q", "u", "i", "t">>, <<"e", "x", "i", "t">>}

\* the separator class [,\s] of re.split
IsSep(c) == c = "," \/ IsSpace(c)

\* re.split(r"[,\s]+", raw): the pieces between maximal runs of separators,
\* an empty piece included where raw starts or ends with a separator
RECURSIVE SplitFrom(_, _, _, _)
SplitFrom(s, i, cur, acc) ==
    IF i > Len(s) THEN Append(acc, cur)
    ELSE IF IsSep(s[i])
         THEN IF i < Len(s) /\ IsSep(s[i + 1])
              THEN SplitFrom(s, i + 1, cur, acc)
              ELSE SplitFrom(s, i + 1, <<>>, Append(acc, cur))
         ELSE SplitFrom(s, i + 1, Append(cur, s[i]), acc)
re_split(raw) == SplitFrom(raw, 1, <<>>, <<>>)

\* the digits of an int() literal, read left to right
RECURSIVE Horner(_, _)
Horner(ds, acc) ==
    IF ds = <<>> THEN acc ELSE Horner(Tail(ds), 10 * acc + DigitVal(Head(ds)))

\* int(s): an optional sign and at least one digit, anything else raises ValueError
int(s) ==
    LET signed == s # <<>> /\ Head(s) \in {"-", "+"}
        ds == IF signed THEN Tail(s) ELSE s
    IN IF ds # <<>> /\ Range(ds) \subseteq Digits
       THEN [ok |-> TRUE,
             val |-> IF signed /\ Head(s) = "-" THEN 0 - Horner(ds, 0) ELSE Horner(ds, 0)]
       ELSE [ok |-> FALSE, val |-> 0]

\* part.split("-", 1): the text before and after the first "-"
FirstDash(part) == CHOOSE i \in 1..Len(part) :
                      part[i] = "-" /\ \A j \in 1..(i - 1) : part[j] # "-"

\* A mutant of ExpandPart: a range is expanded as written, start > end giving nothing.
ExpandPartNoSwap(part) ==
    IF "-" \in Range(part)
    THEN LET d == FirstDash(part)
             start == int(SubSeq(part, 1, d - 1))
             end == int(SubSeq(part, d + 1, Len(part)))
         IN IF start.ok /\ end.ok
            THEN [ok |-> TRUE, set |-> start.val .. end.val]
            ELSE [ok |-> FALSE, set |-> {}]
    ELSE LET v == int(part)
         IN IF v.ok THEN [ok |-> TRUE, set |-> {v.val}] ELSE [ok |-> FALSE, set |-> {}]

\* one pass of the loop body over a non-empty part: the indices it adds, or the
\* ValueError of int()
ExpandPart(part) ==
    IF "-" \in Range(part)
    THEN LET d == FirstDash(part)
             start == int(SubSeq(part, 1, d - 1))
             end == int(SubSeq(part, d + 1, Len(part)))
         IN IF start.ok /\ end.ok
            THEN [ok |-> TRUE,
                  set |-> IF start.val > end.val
                          THEN end.val .. start.val
                          ELSE start.val .. end.val]
            ELSE [ok |-> FALSE, set |-> {}]
    ELSE LET v == int(part)
         IN IF v.ok THEN [ok |-> TRUE, set |-> {v.val}] ELSE [ok |-> FALSE, set |-> {}]

\* the for loop over the parts: the set built, or the first ValueError
RECURSIVE CollectIndices(_, _)
CollectIndices(parts, indices) ==
    IF parts = <<>> THEN [ok |-> TRUE, set |-> indices]
    ELSE IF Head(parts) = <<>> THEN CollectIndices(Tail(parts), indices)
    ELSE LET e == ExpandPart(Head(parts))
         IN IF e.ok THEN CollectIndices(Tail(parts), indices \cup e.set)
            ELSE [ok |-> FALSE, set |-> {}]

Returned(v) == [tag |-> "return", val |-> v, msg |-> ""]
Raised(exc, m) == [tag |-> exc, val |-> <<>>, msg |-> m]

\* _prompt_indices(items, prompt) with len(items) = n and the line typed
_prompt_indices(n, line) ==
    IF n = 0 THEN Returned(<<>>)
    ELSE LET raw == strip(line)
         IN IF raw = <<>> THEN Returned(<<>>)
            ELSE IF lower(raw) \in QuitWords THEN Raised("SystemExit", "0")
            ELSE LET c == CollectIndices(re_split(raw), {})
                     resolved == sorted({i \in c.set : 1 <= i /\ i <= n})
                 IN IF ~c.ok THEN Raised("ValueError", "invalid literal for int()")
                    ELSE IF resolved = <<>>
                         THEN Raised("ValueError", "No valid selections.")
                         ELSE Returned(resolved)

(***************************************************************************)
(* The file system: each store is a tree over a fixed universe of relative *)
(* paths.  DOCS_DIR, DRAFTS_DIR themselves are the path ".".               *)
(***************************************************************************)
Paths == {".", "index.md", "about.md", "top.md", "llm", "llm/a.md", "llm/B.md", "llm/n.txt", "llm/sub", "llm/sub/c.md", "agents", "agents/d_e-f.md", "ai_for_science", "ai_for_science/e.md"}

\* the characters of each path (Path.as_posix())
PathChars ==
    ("." :> <<".">>) @@
    ("index.md" :> <<"i", "n", "d", "e", "x", ".", "m", "d">>) @@
    ("about.md" :> <<"a", "b", "o", "u", "t", ".", "m", "d">>) @@
    ("top.md" :> <<"t", "o", "p", ".", "m", "d">>) @@
    ("llm" :> <<"l", "l", "m">>) @@
    ("llm/a.md" :> <<"l", "l", "m", "/", "a", ".", "m", "d">>) @@
    ("llm/B.md" :> <<"l", "l", "m", "/", "B", ".", "m", "d">>) @@
    ("llm/n.txt" :> <<"l", "l", "m", "/", "n", ".", "t", "x", "t">>) @@
    ("llm/sub" :> <<"l", "l", "m", "/", "s", "u", "b">>) @@
    ("llm/sub/c.md" :> <<"l", "l", "m", "/", "s", "u", "b", "/", "c", ".", "m", "d">>) @@
    ("agents" :> <<"a", "g", "e", "n", "t", "s">>) @@
    ("agents/d_e-f.md" :> <<"a", "g", "e", "n", "t", "s", "/", "d", "_", "e", "-", "f", ".", "m", "d">>) @@
    ("ai_for_science" :> <<"a", "i", "_", "f", "o", "r", "_", "s", "c", "i", "e", "n", "c", "e">>) @@
    ("ai_for_science/e.md" :> <<"a", "i", "_", "f", "o", "r", "_", "s", "c", "i", "e", "n", "c", "e", "/", "e", ".", "m", "d">>)

Absent == [kind |-> "absent", content |-> <<>>]
Dir == [kind |-> "dir", content |-> <<>>]
File(c) == [kind |-> "file", content |-> c]

exists(fs, p) == fs[p].kind # "absent"
is_file(fs, p) == fs[p].kind = "file"
is_dir(fs, p) == fs[p].kind = "dir"

\* the position of the last "/" of a path, 0 when it has none
LastSlash(cs) ==
    IF "/" \in Range(cs)
    THEN CHOOSE i \in 1..Len(cs) : cs[i] = "/" /\ \A j \in (i + 1)..Len(cs) : cs[j] # "/"
    ELSE 0

\* Path.name: the last component
NameOf(p) == SubSeq(PathChars[p], LastSlash(PathChars[p]) + 1, Len(PathChars[p]))

NameTable == [q \in Paths |-> NameOf(q)]
name(p) == NameTable[p]

\* Path.parent, "." for a path of one component
parent(p) ==
    IF LastSlash(PathChars[p]) = 0 THEN "."
    ELSE CHOOSE q \in Paths :
            PathChars[q] = SubSeq(PathChars[p], 1, LastSlash(PathChars[p]) - 1)

\* the directories above p, the store root included
RECURSIVE Ancestors(_)
Ancestors(p) == IF p = "." THEN {} ELSE {parent(p)} \cup Ancestors(parent(p))

\* the same, tabulated
AncestorsOf == [p \in Paths |-> Ancestors(p)]

\* p lies below the directory r
IsUnder(p, r) == r \in AncestorsOf[p]

\* a tree: whatever exists lies in directories that exist
WellFormed(fs) == \A p \in Paths : exists(fs, p) => \A q \in AncestorsOf[p] : is_dir(fs, q)

\* the tree of the entries of f that are reachable from the root
Prune(f) ==
    [p \in Paths |-> IF \A q \in AncestorsOf[p] : f[q].kind = "dir" THEN f[p] ELSE Absent]

\* every choice of one allowed entry per path
RECURSIVE Choices(_, _)
Choices(ps, allowed) ==
    IF ps = {} THEN {<<>>}
    ELSE LET p == CHOOSE q \in ps : TRUE
         IN {(p :> e) @@ f : e \in allowed[p], f \in Choices(ps \ {p}, allowed)}

Trees(allowed) == {Prune(f) : f \in Choices(Paths, allowed)}

\* the regular files of a store, with their contents
FilesOf(fs) == {<<p, fs[p].content>> : p \in {q \in Paths : is_file(fs, q)}}

(***************************************************************************)
(* _iter_md_files: the article scan.                                       *)
(***************************************************************************)
\* code-point order of the characters of the path universe
CharOrder == <<"-", ".", "/">> \o UpperLetters \o <<"_">> \o LowerLetters
Ord(c) == CHOOSE i \in 1..Len(CharOrder) : CharOrder[i] = c

\* a < b for two strings, as Python compares str
RECURSIVE StrLess(_, _)
StrLess(a, b) ==
    IF b = <<>> THEN FALSE
    ELSE IF a = <<>> THEN TRUE
    ELSE IF Head(a) = Head(b) THEN StrLess(Tail(a), Tail(b))
    ELSE Ord(Head(a)) < Ord(Head(b))

\* fnmatch of the name against "*.md" (a POSIX build: case-sensitive)
MatchesMd(p) ==
    LET nm == name(p)
    IN Len(nm) >= 3 /\ SubSeq(nm, Len(nm) - 2, Len(nm)) = <<".", "m", "d">>

\* root.rglob("*.md"): whatever exists below root with a matching name
rglob_md(fs, root) == {p \in Paths : IsUnder(p, root) /\ exists(fs, p) /\ MatchesMd(p)}

\* A mutant of SortKey: the sort is case-sensitive.
SortKeyCaseSensitive(p) == PathChars[p]

\* the sort key str(p).lower(); the paths of one scan share the text before
\* the relative path, so that text decides nothing
SortKey(p) == lower(PathChars[p])

\* sorted(paths, key=...): the universe holds no two paths of equal key
RECURSIVE SortedByKey(_)
SortedByKey(S) ==
    IF S = {} THEN <<>>
    ELSE LET m == CHOOSE x \in S : \A y \in S \ {x} : ~StrLess(SortKey(y), SortKey(x))
         IN <<m>> \o SortedByKey(S \ {m})

_iter_md_files(fs, root) ==
    IF ~exists(fs, root) THEN <<>>
    ELSE SortedByKey({p \in rglob_md(fs, root) : is_file(fs, p)})

Reserved == {"index.md", "about.md"}

\* A mutant of _articles_in_docs: the reserved pages are listed like any article.
_articles_in_docs_unfiltered(fs) ==
    IF ~exists(fs, ".") THEN <<>> ELSE _iter_md_files(fs, ".")

\* the relative paths of the articles listed for unpublishing
_articles_in_docs(fs) ==
    IF ~exists(fs, ".") THEN <<>>
    ELSE SelectSeq(_iter_md_files(fs, "."), LAMBDA p : p \notin Reserved)

\* the relative paths of the articles listed for publishing
_articles_in_drafts(fs) ==
    IF ~exists(fs, ".") THEN <<>> ELSE _iter_md_files(fs, ".")

(***************************************************************************)
(* _read_title.  A file's content is its lines, each a sequence of         *)
(* characters; the model's reads never fail.                               *)
(***************************************************************************)
\* line.startswith("# ")
IsH1(line) == Len(line) >= 2 /\ line[1] = "#" /\ line[2] = " "

\* Path.stem: the name without its last suffix
stem(p) ==
    LET nm == name(p)
        dots == {i \in 2..Len(nm) : nm[i] = "."}
    IN IF dots = {} THEN nm
       ELSE SubSeq(nm, 1, (CHOOSE i \in dots : \A j \in dots : j <= i) - 1)

\* str.split(): the words between runs of whitespace
RECURSIVE WordsFrom(_, _, _)
WordsFrom(s, cur, acc) ==
    IF s = <<>> THEN IF cur = <<>> THEN acc ELSE Append(acc, cur)
    ELSE IF IsSpace(Head(s))
         THEN WordsFrom(Tail(s), <<>>, IF cur = <<>> THEN acc ELSE Append(acc, cur))
         ELSE WordsFrom(Tail(s), Append(cur, Head(s)), acc)
split(s) == WordsFrom(s, <<>>, <<>>)

\* " ".join(words)
RECURSIVE JoinSpace(_)
JoinSpace(ws) ==
    IF ws = <<>> THEN <<>>
    ELSE IF Len(ws) = 1 THEN Head(ws)
    ELSE Head(ws) \o <<" ">> \o JoinSpace(Tail(ws))

FallbackTitle(p) ==
    LET st == stem(p)
        spaced == [i \in 1..Len(st) |-> IF st[i] \in {"_", "-"} THEN " " ELSE st[i]]
        ws == split(strip(spaced))
    IN JoinSpace([i \in 1..Len(ws) |-> <<UpperChar(ws[i][1])>> \o Tail(ws[i])])

_read_title(fs, p) ==
    LET lines == [i \in 1..Len(fs[p].content) |-> strip(fs[p].content[i])]
        heads == {i \in 1..Len(lines) : IsH1(lines[i])}
    IN IF heads # {}
       THEN Str(strip(SubSeq(lines[Min(heads)], 3, Len(lines[Min(heads)]))))
       ELSE Str(FallbackTitle(p))

(***************************************************************************)
(* _render_nav_yaml.  The rendered text is a sequence of chunks: each line *)
(* of the block followed by a "\n" chunk.                                  *)
(***************************************************************************)
\* section_items(section_dir): (title, rel) of every article below the directory
section_items(fs, dir) ==
    IF ~exists(fs, dir) THEN <<>>
    ELSE LET mds == _iter_md_files(fs, dir)
         IN [i \in 1..Len(mds) |-> <<_read_title(fs, mds[i]), mds[i]>>]

EntryLine(item) == "      - " \o item[1] \o ": " \o item[2]

\* A mutant of SectionLines: the header is written for an empty section too.
SectionLinesAlways(header, items) ==
    <<header>> \o [i \in 1..Len(items) |-> EntryLine(items[i])]

\* the lines of one section: nothing for a section without items
SectionLines(header, items) ==
    IF items = <<>> THEN <<>>
    ELSE <<header>> \o [i \in 1..Len(items) |-> EntryLine(items[i])]

NavLines(fs) ==
    <<"nav:", "  - Home: index.md">>
    \o SectionLines("  - LLM Notes:", section_items(fs, "llm"))
    \o SectionLines("  - Agent Architectures:", section_items(fs, "agents"))
    \o SectionLines("  - AI for Science:", section_items(fs, "ai_for_science"))
    \o <<"  - About: about.md">>

\* "\n".join(lines) + "\n"
_render_nav_yaml(fs) ==
    LET lines == NavLines(fs)
    IN Concat([i \in 1..Len(lines) |-> <<lines[i], "\n">>])

(***************************************************************************)
(* _update_mkdocs_nav.  mkdocs.yml holds bytes, modelled as chunks: the    *)
(* literal "nav:", single white-space characters (" ", "\r", "\n"), and    *)
(* other chunks, each standing for text without white space that is no     *)
(* part of a "nav:" literal.                                               *)
(***************************************************************************)
\* Path.read_text(): text mode reads "\r\n" and a lone "\r" as "\n"
RECURSIVE read_text(_)
read_text(bytes) ==
    IF bytes = <<>> THEN <<>>
    ELSE IF Head(bytes) = "\r"
         THEN IF Len(bytes) >= 2 /\ bytes[2] = "\n"
              THEN <<"\n">> \o read_text(Tail(Tail(bytes)))
              ELSE <<"\n">> \o read_text(Tail(bytes))
         ELSE <<Head(bytes)>> \o read_text(Tail(bytes))

\* Path.write_text() of a POSIX build: os.linesep is "\n", the text is written as is
write_text(text) == text

\* re.search(r"(?m)^nav:\s*$", text).start(), 0 for no match: "nav:" at the start
\* of a line, then white space (line ends included) up to the end of some line
re_search_nav(text) ==
    LET hits == {i \in 1..Len(text) :
                    /\ i = 1 \/ text[i - 1] = "\n"
                    /\ text[i] = "nav:"
                    /\ \E k \in i..Len(text) :
                          /\ \A j \in (i + 1)..k : IsSpace(text[j])
                          /\ k = Len(text) \/ text[k + 1] = "\n"}
    IN IF hits = {} THEN 0 ELSE Min(hits)

\* A mutant of SpliceNav: the block is appended behind the text in both cases.
SpliceNavAppend(text, nav_yaml) ==
    (IF text = <<>> \/ text[Len(text)] # "\n" THEN text \o <<"\n">> ELSE text)
        \o <<"\n">> \o nav_yaml

\* the text written, from the text read and the rendered block
SpliceNav(text, nav_yaml) ==
    IF re_search_nav(text) = 0
    THEN (IF text = <<>> \/ text[Len(text)] # "\n" THEN text \o <<"\n">> ELSE text)
            \o <<"\n">> \o nav_yaml
    ELSE SubSeq(text, 1, re_search_nav(text) - 1) \o nav_yaml

NoMkdocs == [exists |-> FALSE, bytes |-> <<>>]

\* _update_mkdocs_nav(): the file afterwards and how the call ended
_update_mkdocs_nav(mk, fs) ==
    IF ~mk.exists
    THEN [mkdocs |-> mk, out |-> Raised("FileNotFoundError", "Missing mkdocs.yml in repo root.")]
    ELSE [mkdocs |-> [exists |-> TRUE,
                      bytes |-> write_text(SpliceNav(read_text(mk.bytes),
                                                     _render_nav_yaml(fs)))],
          out |-> Returned(<<>>)]

(***************************************************************************)
(* _move_article: the Mover.                                               *)
(***************************************************************************)
\* dst.parent.mkdir(parents=True, exist_ok=True) for the directory q of the
\* destination store (the store root is "."; what lies above it exists)
mkdir_parents(fs, q) ==
    IF is_dir(fs, q) THEN [fs |-> fs, raise |-> ""]
    ELSE IF is_file(fs, q) THEN [fs |-> fs, raise |-> "FileExistsError"]
    ELSE IF \E a \in AncestorsOf[q] : is_file(fs, a)
         THEN [fs |-> fs, raise |-> "NotADirectoryError"]
         ELSE [fs |-> [p \in Paths |-> IF p = q \/ p \in AncestorsOf[q]
                                       THEN Dir ELSE fs[p]],
               raise |-> ""]

\* A mutant of CheckDestination: the directory test comes before the force test.
CheckDestinationDirFirst(dst, rel, force) ==
    IF ~exists(dst, rel) THEN [raise |-> "", unlink |-> FALSE]
    ELSE IF is_dir(dst, rel) THEN [raise |-> "IsADirectoryError", unlink |-> FALSE]
    ELSE IF ~force THEN [raise |-> "FileExistsError", unlink |-> FALSE]
    ELSE [raise |-> "", unlink |-> TRUE]

\* A mutant of CheckDestination: the destination file is unlinked before the
\* force test.
CheckDestinationUnlinkFirst(dst, rel, force) ==
    IF ~exists(dst, rel) THEN [raise |-> "", unlink |-> FALSE]
    ELSE IF is_dir(dst, rel) THEN [raise |-> "IsADirectoryError", unlink |-> FALSE]
    ELSE IF ~force THEN [raise |-> "FileExistsError", unlink |-> TRUE]
    ELSE [raise |-> "", unlink |-> TRUE]

\* the "if dst.exists():" block: what it raises, and whether it unlinks dst
CheckDestination(dst, rel, force) ==
    IF ~exists(dst, rel) THEN [raise |-> "", unlink |-> FALSE]
    ELSE IF ~force THEN [raise |-> "FileExistsError", unlink |-> FALSE]
    ELSE IF is_dir(dst, rel) THEN [raise |-> "IsADirectoryError", unlink |-> FALSE]
    ELSE [raise |-> "", unlink |-> TRUE]

\* A mutant of shutil_move: the file is copied and the source is left behind.
shutil_copy(src, dst, rel) ==
    [src |-> src, dst |-> [dst EXCEPT ![rel] = src[rel]]]

\* shutil.move(src, dst) onto a path where nothing exists: a rename
shutil_move(src, dst, rel) ==
    [src |-> [src EXCEPT ![rel] = Absent], dst |-> [dst EXCEPT ![rel] = src[rel]]]

\* _move_article(src_root, dst_root, relpath, force=force): both trees afterwards
\* and how the call ended
_move_article(src, dst, rel, force) ==
    LET made == mkdir_parents(dst, parent(rel))
        chk == CheckDestination(made.fs, rel, force)
        cleared == IF chk.unlink THEN [made.fs EXCEPT ![rel] = Absent] ELSE made.fs
    IN IF made.raise # ""
       THEN [src |-> src, dst |-> made.fs, out |-> Raised(made.raise, "")]
       ELSE IF chk.raise # ""
       THEN [src |-> src, dst |-> cleared, out |-> Raised(chk.raise, "")]
       ELSE IF ~exists(src, rel)
       THEN [src |-> src, dst |-> cleared, out |-> Raised("FileNotFoundError", "")]
       ELSE [src |-> shutil_move(src, cleared, rel).src,
             dst |-> shutil_move(src, cleared, rel).dst,
             out |-> Returned(<<>>)]

(***************************************************************************)
(* The parser on its own: a line is typed at a prompt showing n items.     *)
(***************************************************************************)
SelChars == {"0", "1", "2", "-", ",", " "}

\* lines of the quit keywords and of tokens that are no numbers
WordLines == {<<"q">>, <<"Q">>, <<"q", "u", "i", "t">>, <<"E", "x", "i", "t">>,
              <<"1", "q">>, <<"+", "1">>, <<"\t">>}

SelLines == SeqsUpTo(SelChars, MaxSelLen) \cup WordLines

NoFs == [p \in Paths |-> Absent]
NoOut == [tag |-> "none", val |-> <<>>, msg |-> ""]

InitParse ==
    /\ docs = NoFs /\ drafts = NoFs /\ mkdocs = NoMkdocs
    /\ pc = "prompt"
    /\ \E n \in 0..MaxItems, line \in SelLines : loc = [n |-> n, line |-> line]
    /\ out = NoOut

Prompt ==
    /\ pc = "prompt"
    /\ out' = _prompt_indices(loc.n, loc.line)
    /\ pc' = "prompted"
    /\ UNCHANGED <<docs, drafts, mkdocs, loc>>

NextParse == Prompt

SpecParse == InitParse /\ [][NextParse]_vars

(***************************************************************************)
(* The renderer on its own: a Published Store is drawn and rendered.       *)
(***************************************************************************)
BodyEmpty == <<>>
BodyTitled == << <<"#", " ", "H", "i">> >>
BodyLateTitle == << <<"t", "e", "x", "t">>, <<" ", "#", " ", "T", "w", "o", " ">> >>
BodyNoTitle == << <<"#", "#", " ", "S", "u", "b">>, <<"#">> >>

AllowedRender ==
    [p \in Paths |->
        CASE p = "." -> {Dir}
          [] p \in {"index.md", "about.md"} -> {Absent, File(BodyTitled)}
          [] p = "top.md" -> {Absent, File(BodyTitled)}
          [] p = "llm" -> {Absent, Dir, File(BodyEmpty)}
          [] p = "llm/a.md" -> {Absent, Dir, File(BodyEmpty), File(BodyTitled),
                                File(BodyLateTitle)}
          [] p = "llm/B.md" -> {Absent, File(BodyNoTitle)}
          [] p = "llm/n.txt" -> {Absent, File(BodyTitled)}
          [] p = "llm/sub" -> {Absent, Dir}
          [] p = "llm/sub/c.md" -> {Absent, File(BodyTitled)}
          [] p = "agents" -> {Absent, Dir}
          [] p = "agents/d_e-f.md" -> {Absent, File(BodyEmpty), File(BodyLateTitle)}
          [] p = "ai_for_science" -> {Absent, Dir}
          [] p = "ai_for_science/e.md" -> {Absent, File(BodyNoTitle)}]

InitRender ==
    /\ docs \in Trees(AllowedRender)
    /\ drafts = NoFs /\ mkdocs = NoMkdocs
    /\ pc = "render"
    /\ loc = <<>>
    /\ out = NoOut

Render ==
    /\ pc = "render"
    /\ out' = Returned(_render_nav_yaml(docs))
    /\ pc' = "rendered"
    /\ UNCHANGED <<docs, drafts, mkdocs, loc>>

NextRender == Render

SpecRender == InitRender /\ [][NextRender]_vars

(***************************************************************************)
(* The splice on its own: a mkdocs.yml is drawn and its nav block written. *)
(***************************************************************************)
TextChunks == {"nav:", "x", " ", "\r", "\n"}

AllowedSplice ==
    [p \in Paths |->
        CASE p \in {".", "llm"} -> {Dir}
          [] p = "llm/a.md" -> {Absent, File(BodyTitled)}
          [] OTHER -> {Absent}]

InitSplice ==
    /\ docs \in Trees(AllowedSplice)
    /\ drafts = NoFs
    /\ mkdocs \in {NoMkdocs}
                    \cup {[exists |-> TRUE, bytes |-> b] : b \in SeqsUpTo(TextChunks, MaxTextLen)}
    /\ pc = "update"
    /\ loc = <<>>
    /\ out = NoOut

UpdateNav ==
    /\ pc = "update"
    /\ LET r == _update_mkdocs_nav(mkdocs, docs)
       IN /\ mkdocs' = r.mkdocs
          /\ out' = r.out
          /\ loc' = [before |-> mkdocs.bytes]
    /\ pc' = "updated"
    /\ UNCHANGED <<docs, drafts>>

NextSplice == UpdateNav

SpecSplice == InitSplice /\ [][NextSplice]_vars

(***************************************************************************)
(* The Mover on its own: two stores are drawn, an article of one store is  *)
(* moved to the other, and then moved back.                                *)
(***************************************************************************)
AllowedMoverDocs ==
    [p \in Paths |->
        CASE p = "." -> {Absent, Dir}
          [] p = "index.md" -> {Absent, File(BodyTitled)}
          [] p = "llm" -> {Absent, Dir, File(BodyEmpty)}
          [] p = "llm/a.md" -> {Absent, Dir, File(BodyTitled), File(BodyNoTitle)}
          [] p = "llm/sub" -> {Absent, Dir}
          [] p = "llm/sub/c.md" -> {Absent, File(BodyTitled)}
          [] OTHER -> {Absent}]

AllowedMoverDrafts ==
    [p \in Paths |->
        CASE p = "." -> {Dir}
          [] p = "index.md" -> {Absent, File(BodyEmpty)}
          [] p = "llm" -> {Absent, Dir, File(BodyEmpty)}
          [] p = "llm/a.md" -> {Absent, Dir, File(BodyLateTitle)}
          [] p = "llm/sub" -> {Absent, Dir}
          [] p = "llm/sub/c.md" -> {Absent, File(BodyEmpty)}
          [] OTHER -> {Absent}]

\* the articles of a store: its regular files named *.md
ArticlesOf(fs) == {p \in Paths : is_file(fs, p) /\ MatchesMd(p)}

InitMover ==
    /\ docs \in Trees(AllowedMoverDocs)
    /\ drafts \in Trees(AllowedMoverDrafts)
    /\ mkdocs = NoMkdocs
    /\ pc = "call"
    /\ loc = <<>>
    /\ out = NoOut

\* the two stores after a call that moves rel out of the store named from
MoverCall(from, rel, force) ==
    IF from = "docs"
    THEN LET r == _move_article(docs, drafts, rel, force)
         IN [docs |-> r.src, drafts |-> r.dst, out |-> r.out]
    ELSE LET r == _move_article(drafts, docs, rel, force)
         IN [docs |-> r.dst, drafts |-> r.src, out |-> r.out]

Other(store) == IF store = "docs" THEN "drafts" ELSE "docs"

MoveThere ==
    /\ pc = "call"
    /\ \E from \in {"docs", "drafts"}, force \in BOOLEAN :
          \E rel \in ArticlesOf(IF from = "docs" THEN docs ELSE drafts) :
             LET r == MoverCall(from, rel, force)
             IN /\ docs' = r.docs /\ drafts' = r.drafts /\ out' = r.out
                /\ loc' = [origin |-> from, from |-> from, rel |-> rel, force |-> force,
                           before |-> [docs |-> docs, drafts |-> drafts],
                           start |-> [docs |-> docs, drafts |-> drafts],
                           first |-> r.out.tag]
    /\ pc' = "moved"
    /\ UNCHANGED mkdocs

MoveBack ==
    /\ pc = "moved"
    /\ out.tag = "return"
    /\ \E force \in BOOLEAN :
          LET r == MoverCall(Other(loc.from), loc.rel, force)
          IN /\ docs' = r.docs /\ drafts' = r.drafts /\ out' = r.out
             /\ loc' = [loc EXCEPT !.from = Other(loc.from), !.force = force,
                                   !.before = [docs |-> docs, drafts |-> drafts]]
    /\ pc' = "back"
    /\ UNCHANGED mkdocs

NextMover == MoveThere \/ MoveBack

SpecMover == InitMover /\ [][NextMover]_vars

(***************************************************************************)
(* The tool itself: main() and _interactive(), run after run.  One run is  *)
(* the menu, the selection prompt, one step per moved article, and the     *)
(* rewrite of the nav block.                                               *)
(***************************************************************************)
AllowedRunDocs ==
    [p \in Paths |->
        CASE p = "." -> {Dir}
          [] p \in Reserved -> {File(BodyTitled)}
          [] p = "llm" -> {Absent, Dir, File(BodyEmpty)}
          [] p = "llm/a.md" -> {Absent, File(BodyTitled)}
          [] p = "llm/B.md" -> {Absent, Dir, File(BodyNoTitle)}
          [] OTHER -> {Absent}]

AllowedRunDrafts ==
    [p \in Paths |->
        CASE p = "." -> {Absent, Dir}
          [] p = "index.md" -> {Absent, File(BodyEmpty)}
          [] p = "llm" -> {Absent, Dir, File(BodyEmpty)}
          [] p = "llm/a.md" -> {Absent, Dir, File(BodyLateTitle)}
          [] p = "llm/B.md" -> {Absent, File(BodyEmpty)}
          [] OTHER -> {Absent}]

RunMkdocs ==
    {NoMkdocs,
     [exists |-> TRUE, bytes |-> <<"x", "\n">>],
     [exists |-> TRUE, bytes |-> <<"x", "\n", "nav:", "\n", "  - Old: old.md", "\n">>]}

\* what is typed at the menu and at the selection prompt
MenuInputs == {<<"q">>, <<"1">>, <<" ", "2">>, <<"3">>, <<"x">>}
RunLines == {<<>>, <<" ">>, <<"q">>, <<"x">>, <<"9">>, <<"1">>, <<"2">>,
             <<"1", " ", "2">>, <<"3", "-", "1">>}

Init ==
    /\ docs \in Trees(AllowedRunDocs)
    /\ drafts \in Trees(AllowedRunDrafts)
    /\ mkdocs \in RunMkdocs
    /\ pc = "idle"
    /\ loc = <<>>
    /\ out = NoOut

\* the exit status of the process: the value main() returns, 0 for SystemExit(0),
\* 1 for an exception nobody catches
ExitStatus(o) ==
    IF o.tag = "return" THEN o.val[1]
    ELSE IF o.tag = "SystemExit" THEN 0
    ELSE 1

CanStart == pc \in {"idle", "exited"}

\* main(["--list", ...]): _list() prints both stores and returns 0
ListMode ==
    /\ CanStart
    /\ loc' = [mode |-> "list"]
    /\ out' = Returned(<<0>>)
    /\ pc' = "exited"
    /\ UNCHANGED <<docs, drafts, mkdocs>>

\* _interactive(force) up to the selection prompt
Menu ==
    /\ CanStart
    /\ \E force \in BOOLEAN, typed \in MenuInputs :
          LET choice == lower(strip(typed))
              made == [drafts EXCEPT !["."] = Dir]
              src_items == IF choice = <<"1">> THEN _articles_in_docs(docs)
                           ELSE _articles_in_drafts(made)
              run == [mode |-> "interactive", force |-> force, choice |-> Str(choice),
                      src_items |-> <<>>, line |-> <<>>, prompted |-> FALSE,
                      picked |-> <<>>, i |-> 1, moved |-> <<>>]
          IN /\ drafts' = made
             /\ IF choice \in QuitWords \/ choice = <<"3">>
                THEN loc' = run /\ out' = Returned(<<0>>) /\ pc' = "exited"
                ELSE IF choice \notin {<<"1">>, <<"2">>}
                THEN loc' = run /\ out' = Returned(<<2>>) /\ pc' = "exited"
                ELSE IF src_items = <<>>
                THEN loc' = run /\ out' = Returned(<<0>>) /\ pc' = "exited"
                ELSE /\ loc' = [run EXCEPT !.src_items = src_items]
                     /\ out' = NoOut
                     /\ pc' = "prompt"
    /\ UNCHANGED <<docs, mkdocs>>

\* the selection prompt: _prompt_indices and the except clause around it
Select ==
    /\ pc = "prompt"
    /\ \E line \in RunLines :
          LET r == _prompt_indices(Len(loc.src_items), line)
          IN /\ loc' = [loc EXCEPT !.line = line, !.prompted = TRUE, !.picked = r.val]
             /\ IF r.tag = "ValueError"
                THEN out' = Returned(<<2>>) /\ pc' = "exited"
                ELSE IF r.tag = "SystemExit"
                THEN out' = r /\ pc' = "exited"
                ELSE out' = NoOut /\ pc' = "moving"
    /\ UNCHANGED <<docs, drafts, mkdocs>>

\* one pass of "for idx in picked": an exception of the Mover ends the process
MoveNext ==
    /\ pc = "moving"
    /\ loc.i <= Len(loc.picked)
    /\ LET rel == loc.src_items[loc.picked[loc.i]]
           r == IF loc.choice = "1"
                THEN _move_article(docs, drafts, rel, loc.force)
                ELSE _move_article(drafts, docs, rel, loc.force)
       IN /\ docs' = (IF loc.choice = "1" THEN r.src ELSE r.dst)
          /\ drafts' = (IF loc.choice = "1" THEN r.dst ELSE r.src)
          /\ IF r.out.tag = "return"
             THEN /\ loc' = [loc EXCEPT !.i = loc.i + 1, !.moved = Append(loc.moved, rel)]
                  /\ out' = NoOut
                  /\ pc' = "moving"
             ELSE /\ loc' = loc
                  /\ out' = r.out
                  /\ pc' = "exited"
    /\ UNCHANGED mkdocs

\* after the loop: _update_mkdocs_nav() and return 0
FinishRun ==
    /\ pc = "moving"
    /\ loc.i > Len(loc.picked)
    /\ LET r == _update_mkdocs_nav(mkdocs, docs)
       IN /\ mkdocs' = r.mkdocs
          /\ out' = (IF r.out.tag = "return" THEN Returned(<<0>>) ELSE r.out)
    /\ pc' = "exited"
    /\ UNCHANGED <<docs, drafts, loc>>

Next == ListMode \/ Menu \/ Select \/ MoveNext \/ FinishRun

Spec == Init /\ [][Next]_vars

\* no relative path is a regular file in both stores
Exclusive == \A p \in Paths : ~(is_file(docs, p) /\ is_file(drafts, p))

InitExcl == Init /\ Exclusive

SpecExcl == InitExcl /\ [][Next]_vars

(***************************************************************************)
(* What the selection line means, stated on the line itself.               *)
(***************************************************************************)
\* a token of the line: a maximal run of characters that are no separators
IsToken(line, i, j) ==
    /\ 1 <= i /\ i <= j /\ j <= Len(line)
    /\ \A k \in i..j : ~IsSep(line[k])
    /\ (i = 1 \/ IsSep(line[i - 1]))
    /\ (j = Len(line) \/ IsSep(line[j + 1]))

TokensOf(line) ==
    {SubSeq(line, p[1], p[2]) : p \in {q \in (1..Len(line)) \X (1..Len(line)) :
                                          IsToken(line, q[1], q[2])}}

IsNumber(t) == t # <<>> /\ Range(t) \subseteq Digits

\* start-end: two numbers around a single dash
IsRangeToken(t) ==
    \E d \in 1..Len(t) :
        /\ t[d] = "-"
        /\ IsNumber(SubSeq(t, 1, d - 1))
        /\ IsNumber(SubSeq(t, d + 1, Len(t)))

RECURSIVE Pow10(_)
Pow10(k) == IF k = 0 THEN 1 ELSE 10 * Pow10(k - 1)

\* the number a string of digits denotes, by place value
RECURSIVE PlaceValue(_)
PlaceValue(t) ==
    IF t = <<>> THEN 0
    ELSE DigitVal(Head(t)) * Pow10(Len(t) - 1) + PlaceValue(Tail(t))

\* the indices a well-formed token names
Denotes(t, i) ==
    IF IsNumber(t) THEN i = PlaceValue(t)
    ELSE \E d \in 1..Len(t) :
            /\ t[d] = "-"
            /\ LET a == PlaceValue(SubSeq(t, 1, d - 1))
                   b == PlaceValue(SubSeq(t, d + 1, Len(t)))
               IN (a <= i /\ i <= b) \/ (b <= i /\ i <= a)

WellFormedLine(line) ==
    /\ \E k \in 1..Len(line) : ~IsSpace(line[k])
    /\ lower(strip(line)) \notin QuitWords
    /\ \A t \in TokensOf(line) : IsNumber(t) \/ IsRangeToken(t)

Selected(line, n) == {i \in 1..n : \E t \in TokensOf(line) : Denotes(t, i)}

StrictlyAscending(s) == \A i \in 1..(Len(s) - 1) : s[i] < s[i + 1]

\* C1: for n >= 1 and a non-empty, non-quit line of well-formed tokens, the parser
\* returns exactly the ascending, duplicate-free list of the indices of [1, n] that
\* some token names (a range with start > end naming end..start), and raises
\* ValueError "No valid selections." when there is no such index.
C1_SelectionResolved ==
    (pc = "prompted" /\ loc.n >= 1 /\ WellFormedLine(loc.line)) =>
        LET S == Selected(loc.line, loc.n)
        IN IF S = {}
           THEN out.tag = "ValueError" /\ out.msg = "No valid selections."
           ELSE /\ out.tag = "return"
                /\ StrictlyAscending(out.val)
                /\ Range(out.val) = S

\* a swapped range was typed and more than one index came back
C1_Witness ==
    /\ pc = "prompted" /\ loc.n >= 1 /\ WellFormedLine(loc.line)
    /\ \E t \in TokensOf(loc.line) :
          /\ IsRangeToken(t)
          /\ PlaceValue(SubSeq(t, 1, FirstDash(t) - 1))
               > PlaceValue(SubSeq(t, FirstDash(t) + 1, Len(t)))
    /\ out.tag = "return" /\ Len(out.val) >= 2

(***************************************************************************)
(* What the manifest is to hold, stated on the Published Store.            *)
(***************************************************************************)
\* the eligible articles of a subdirectory: the regular files named *.md at any depth
EligibleUnder(fs, dir) ==
    {p \in Paths : /\ IsUnder(p, dir)
                   /\ fs[p].kind = "file"
                   /\ Len(PathChars[p]) >= 3
                   /\ SubSeq(PathChars[p], Len(PathChars[p]) - 2, Len(PathChars[p]))
                        = <<".", "m", "d">>}

\* the Article Index order: ascending by the lower-cased relative path
InIndexOrder(S) ==
    CHOOSE s \in [1..Cardinality(S) -> S] :
        /\ Range(s) = S
        /\ \A i \in 1..(Len(s) - 1) :
              StrLess(lower(PathChars[s[i]]), lower(PathChars[s[i + 1]]))

ExpectedSection(fs, header, dir) ==
    IF EligibleUnder(fs, dir) = {} THEN <<>>
    ELSE LET arts == InIndexOrder(EligibleUnder(fs, dir))
         IN <<header>>
            \o [i \in 1..Len(arts) |->
                   "      - " \o _read_title(fs, arts[i]) \o ": " \o arts[i]]

ExpectedManifest(fs) ==
    <<"nav:", "  - Home: index.md">>
    \o ExpectedSection(fs, "  - LLM Notes:", "llm")
    \o ExpectedSection(fs, "  - Agent Architectures:", "agents")
    \o ExpectedSection(fs, "  - AI for Science:", "ai_for_science")
    \o <<"  - About: about.md">>

\* the lines of a rendered text, each ended by "\n"
IsLinesOf(text, lines) ==
    /\ Len(text) = 2 * Len(lines)
    /\ \A i \in 1..Len(lines) : text[2 * i - 1] = lines[i] /\ text[2 * i] = "\n"

IsLineEnd(c) == c \in {"\n", "\r"}

\* a marker line starts at i: "nav:" at the start of a line, nothing but blanks
\* behind it on that line
IsMarkerLine(b, i) ==
    /\ i = 1 \/ IsLineEnd(b[i - 1])
    /\ b[i] = "nav:"
    /\ \A j \in (i + 1)..Len(b) :
          (\A k \in (i + 1)..j : ~IsLineEnd(b[k])) => b[j] \in {" ", "\t"}

\* the start of the first marker line, 0 when the document has none
FirstMarkerLine(b) ==
    IF \E i \in 1..Len(b) : IsMarkerLine(b, i)
    THEN Min({i \in 1..Len(b) : IsMarkerLine(b, i)})
    ELSE 0

\* C3: with a marker line, the rewritten document is the original up to the first
\* marker line followed by the rendered block; without one, the original document
\* is a prefix of the rewritten one and the rendered block follows it after a
\* separating blank line.  (A marker line is taken as the code takes it: "nav:"
\* and optional trailing blanks.)
C3_PrefixPreserved ==
    (pc = "updated" /\ out.tag = "return") =>
        LET b == loc.before
            m == FirstMarkerLine(b)
            nav == _render_nav_yaml(docs)
        IN IF m # 0
           THEN mkdocs.bytes = SubSeq(b, 1, m - 1) \o nav
           ELSE \/ mkdocs.bytes = b \o <<"\n">> \o nav /\ (b # <<>> => b[Len(b)] = "\n")
                \/ mkdocs.bytes = b \o <<"\n", "\n">> \o nav

\* the same for documents without carriage returns, which the code does preserve
C3_PrefixPreservedLF ==
    (pc = "updated" /\ "\r" \notin Range(loc.before)) => C3_PrefixPreserved

(***************************************************************************)
(* Properties of the Mover.                                                *)
(***************************************************************************)
StoreOf(pair, store) == IF store = "docs" THEN pair.docs ELSE pair.drafts
Now == [docs |-> docs, drafts |-> drafts]

MoverCalled == pc \in {"moved", "back"}

\* neither store changed in the last call
NothingChanged == docs = loc.before.docs /\ drafts = loc.before.drafts

\* C5, as claimed: a destination that exists as a directory makes the Mover raise
\* IsADirectoryError whatever the overwrite flag, and nothing is moved.
C5_AlwaysIsADirectory ==
    (MoverCalled /\ is_dir(StoreOf(loc.before, Other(loc.from)), loc.rel)) =>
        (out.tag = "IsADirectoryError" /\ NothingChanged)

\* C5, amended: a destination that exists as a directory makes the Mover fail and
\* move nothing for both values of the overwrite flag: IsADirectoryError with
\* overwrite on, FileExistsError (AlreadyExists) with overwrite off.
C5_DirectoryDestinationFails ==
    (MoverCalled /\ is_dir(StoreOf(loc.before, Other(loc.from)), loc.rel)) =>
        /\ out.tag = (IF loc.force THEN "IsADirectoryError" ELSE "FileExistsError")
        /\ NothingChanged

\* the Mover met a directory at the destination without the overwrite flag
C5_Witness ==
    /\ MoverCalled
    /\ is_dir(StoreOf(loc.before, Other(loc.from)), loc.rel)
    /\ ~loc.force
    /\ out.tag = "FileExistsError"

\* C6: whenever the Mover raises, the files of both stores and their contents are
\* those before the call: the source file is in place, the destination untouched.
C6_FailedMoveChangesNoFile ==
    (MoverCalled /\ out.tag # "return") =>
        /\ FilesOf(docs) = FilesOf(loc.before.docs)
        /\ FilesOf(drafts) = FilesOf(loc.before.drafts)
        /\ StoreOf(Now, loc.from)[loc.rel] = StoreOf(loc.before, loc.from)[loc.rel]
        /\ is_file(StoreOf(Now, loc.from), loc.rel)

\* the Mover refused to overwrite a regular file
C6_Witness ==
    /\ MoverCalled
    /\ is_file(StoreOf(loc.before, Other(loc.from)), loc.rel)
    /\ ~loc.force
    /\ out.tag = "FileExistsError"

\* the round trip came back: store A holds the article as at the start, store B
\* holds nothing at its path
RoundTripRestored ==
    /\ StoreOf(Now, loc.origin)[loc.rel] = StoreOf(loc.start, loc.origin)[loc.rel]
    /\ is_file(StoreOf(Now, loc.origin), loc.rel)
    /\ ~exists(StoreOf(Now, Other(loc.origin)), loc.rel)

\* C8, as claimed: with no regular file at the article's path in store B, the move
\* to B and the move back both succeed and restore the article in A.
C8_RoundTripNoFile ==
    (MoverCalled /\ ~is_file(StoreOf(loc.start, Other(loc.origin)), loc.rel)) =>
        /\ loc.first = "return"
        /\ out.tag = "return"
        /\ pc = "back" => RoundTripRestored

\* store B can take the article: nothing exists at its path, and no directory
\* above that path is a regular file
DestinationFree(B, rel) ==
    /\ ~exists(B, rel)
    /\ \A a \in AncestorsOf[rel] : ~is_file(B, a)

\* C8, amended: with nothing (no file and no directory) at the article's path in
\* store B and no regular file in the place of a directory above it, the move to B
\* and the move back both succeed, and leave A holding the article at its path
\* with its content and B holding nothing at that path.
C8_RoundTrip ==
    (MoverCalled /\ DestinationFree(StoreOf(loc.start, Other(loc.origin)), loc.rel)) =>
        /\ loc.first = "return"
        /\ out.tag = "return"
        /\ pc = "back" => RoundTripRestored

\* an article went to a store that had to create its directory, and came back
C8_Witness ==
    /\ pc = "back"
    /\ DestinationFree(StoreOf(loc.start, Other(loc.origin)), loc.rel)
    /\ ~exists(StoreOf(loc.start, Other(loc.origin)), parent(loc.rel))
    /\ parent(loc.rel) # "."
    /\ out.tag = "return"
    /\ RoundTripRestored

(***************************************************************************)
(* Properties of the runs.                                                 *)
(***************************************************************************)
InRun == pc \in {"prompt", "moving", "exited"} /\ loc.mode = "interactive"
RunEnded == pc = "exited" /\ loc.mode = "interactive"

\* the navigation block of a document: from its first marker line to the end
NavBlockOf(b) ==
    IF FirstMarkerLine(b) = 0 THEN <<>> ELSE SubSeq(b, FirstMarkerLine(b), Len(b))

\* C4: when a run in which at least one article was moved has ended, however it
\* ended, the navigation block of mkdocs.yml is the rendering of the Published
\* Store as it stands.
C4_NavCurrentAtExit ==
    (RunEnded /\ Len(loc.moved) >= 1 /\ mkdocs.exists) =>
        NavBlockOf(mkdocs.bytes) = _render_nav_yaml(docs)

\* the same for the runs that reach the end of _interactive
C4_NavCurrentAfterCompletedRun ==
    (RunEnded /\ Len(loc.moved) >= 1 /\ out.tag = "return") =>
        NavBlockOf(mkdocs.bytes) = _render_nav_yaml(docs)

\* C7: a run whose selection line is empty or blank moves no article and ends with
\* exit status 0, whatever the stores and mkdocs.yml are.
C7_BlankLineCancels ==
    (RunEnded /\ loc.prompted /\ strip(loc.line) = <<>>) =>
        (loc.moved = <<>> /\ ExitStatus(out) = 0)

\* the source and the destination store of the current run
RunSrc == IF loc.choice = "1" THEN docs ELSE drafts
RunDst == IF loc.choice = "1" THEN drafts ELSE docs

\* C9: from stores that share no regular file, no relative path is ever a regular
\* file in both stores, whatever runs are made (aborted ones included), and every
\* path a run has moved is a file of the destination store and gone from the
\* source store.
C9_StoresExclusive ==
    /\ Exclusive
    /\ InRun => \A k \in 1..Len(loc.moved) :
                   /\ is_file(RunDst, loc.moved[k])
                   /\ ~exists(RunSrc, loc.moved[k])

\* a run moved an article and was then aborted by a conflict at the destination
C9_Witness ==
    /\ RunEnded
    /\ Len(loc.moved) >= 1
    /\ out.tag \in {"FileExistsError", "IsADirectoryError"}
    /\ Exclusive

\* C10, as claimed: the reserved pages stay in the Published Store with their
\* original content, and are never listed for unpublishing.
C10_ReservedUntouched ==
    \A r \in Reserved :
        /\ docs[r] = File(BodyTitled)
        /\ (InRun /\ loc.choice = "1") => r \notin Range(loc.src_items)

\* C10, amended: the reserved pages are never listed for unpublishing and never
\* leave the Published Store: each stays a regular file there, and its content
\* changes only when a publish run with the overwrite flag moves the draft of the
\* same relative path onto it.
C10_ReservedKept ==
    [][\A r \in Reserved :
          /\ is_file(docs', r)
          /\ (pc' \in {"prompt", "moving", "exited"} /\ loc'.mode = "interactive"
                /\ loc'.choice = "1") => r \notin Range(loc'.src_items)
          /\ docs'[r] # docs[r] =>
                /\ pc = "moving" /\ loc.choice = "2" /\ loc.force
                /\ loc.src_items[loc.picked[loc.i]] = r
                /\ docs'[r] = drafts[r]]_vars

\* a publish run with the overwrite flag has replaced the landing page by a draft
C10_Witness ==
    /\ InRun /\ loc.choice = "2" /\ loc.force
    /\ "index.md" \in Range(loc.moved)
    /\ docs["index.md"] = File(BodyEmpty)
    /\ ~exists(drafts, "index.md")

====
